---------------------------- MODULE Spec2Model ----------------------------
(***************************************************************************)
(* The NES core of Danidfra/moonfile: the module-boundary contract of the  *)
(* four C variants under src/scripts/.                                     *)
(*                                                                         *)
(*   fs_  src/scripts/fceux-simple.c        (gated on running, strict size)*)
(*   fz_  src/scripts/fceux-zero-imports.c  (palette renderer, mapper fx)  *)
(*   ns_  src/scripts/nes-standalone.c      (palette renderer)             *)
(*   zi_  src/scripts/zero-imports.c        (linear renderer)              *)
(*                                                                         *)
(* One behaviour runs one variant (chosen in Init).  The host calls the    *)
(* exported entry points one at a time; each action is one whole call.     *)
(*                                                                         *)
(* The 245760-byte frame buffer, the 2 MiB ROM staging buffer and the      *)
(* 8 KiB CHR RAM and the palette table are observed at sampled offsets     *)
(* (Pixels, RomProbe, ChrProbe, PalProbe): every write of the code is      *)
(* applied to each sampled offset exactly as the code applies it to every  *)
(* offset.                                                                 *)
(***************************************************************************)
EXTENDS Integers, Sequences, FiniteSets, TLC

VARIABLES
    variant,        \* which source file this run executes
    initialized,    \* static int initialized
    rom_loaded,     \* static int rom_loaded
    running,        \* static int running          (fs, fz)
    controls,       \* controller bitfield
    frame_count,    \* 32-bit unsigned frame counter
    rom_size,       \* bytes copied by the last accepted loadRom
    prg_banks,      \* header[4]                   (fs, fz)
    chr_banks,      \* header[5]                   (fs, fz)
    mapper,         \* mapper number               (fs, fz, ns)
    has_chr_ram,    \* chr_banks == 0              (fs, fz)
    has_trainer,    \* flags6 & 4                  (fs)
    has_battery,    \* flags6 & 2                  (fs)
    frame_buffer,   \* sampled pixel -> <<r, g, b, a>>
    palette,        \* sampled palette entry -> <<r, g, b, a>>
    rom_buffer,     \* sampled offset -> byte of the staging buffer
    chr_ram,        \* sampled offset -> byte of CHR RAM (fs)
    last            \* the call that has just returned: entry, arguments, result

vars == <<variant, initialized, rom_loaded, running, controls, frame_count,
          rom_size, prg_banks, chr_banks, mapper, has_chr_ram, has_trainer,
          has_battery, frame_buffer, palette, rom_buffer, chr_ram, last>>

\* Everything the module owns (all statics), without the call record.
module_state == <<initialized, rom_loaded, running, controls, frame_count,
                  rom_size, prg_banks, chr_banks, mapper, has_chr_ram,
                  has_trainer, has_battery, frame_buffer, palette, rom_buffer,
                  chr_ram>>

\* The ROM-side state: what loadRom records.
rom_state == <<rom_loaded, rom_size, prg_banks, chr_banks, mapper, has_chr_ram,
               has_trainer, has_battery, rom_buffer, chr_ram>>

-----------------------------------------------------------------------------
(* Program constants *)

FRAME_WIDTH       == 256
FRAME_HEIGHT      == 240
MAX_ROM_SIZE      == 2097152
CHR_RAM_SIZE      == 8192
HEADER_SIZE       == 16
PRG_BANK_SIZE     == 16384
CHR_BANK_SIZE     == 8192
TRAINER_SIZE      == 512

(* Bounds of the model *)

NumPixels    == 3       \* sampled pixels of the frame buffer
PixelStride  == 20491   \* distance (in pixels) between two sampled pixels
MaxFrames    == 4       \* rendering frame() calls per reset/init

Variants == {"fceux-simple", "fceux-zero-imports", "nes-standalone", "zero-imports"}

-----------------------------------------------------------------------------
(* C arithmetic on small unsigned values *)

\* (v >> b) & 1
Bit(v, b) == (v \div (2 ^ b)) % 2

\* v | (1 << b), for 0 <= b
OrBit(v, b) == IF Bit(v, b) = 1 THEN v ELSE v + 2 ^ b

\* v & ~(1 << b), for 0 <= b
ClearBit(v, b) == IF Bit(v, b) = 1 THEN v - 2 ^ b ELSE v

\* (unsigned char) v, for any int v > -256
U8(v) == (v + 256) % 256

-----------------------------------------------------------------------------
(* Sampled offsets *)

\* The linear index (y * 256 + x) of the i-th sampled pixel.
PixelIndex(i) == (i * PixelStride) % (FRAME_WIDTH * FRAME_HEIGHT)
Pixels == {PixelIndex(i) : i \in 0..(NumPixels - 1)}
PX(p) == p % FRAME_WIDTH
PY(p) == p \div FRAME_WIDTH

\* Offsets of the staging buffer that are observed: the header fields the
\* code reads, the first body byte and the last byte of the buffer.
RomProbe == (0..7) \cup {HEADER_SIZE, MAX_ROM_SIZE - 1}

\* Entries of the palette the palette-driven renderers read for the sampled
\* pixels and the frame counters a run reaches.
PalProbe ==
    {((PX(p) \div 8) + (PY(p) \div 8) + (f \div 4)) % 64 :
        p \in Pixels, f \in 0..MaxFrames}

\* Offsets of chr_ram the renderer of fceux-simple.c reads for the sampled pixels.
ChrProbe == {(PX(p) + PY(p) * 16) % CHR_RAM_SIZE : p \in Pixels}

-----------------------------------------------------------------------------
(* ROM images the host passes to loadRom *)

\* An image is the size argument, the first eight bytes at the pointer
\* (magic, PRG banks, CHR banks, flags6, flags7) and the value of its body
\* bytes; bytes 8..15 of the header are zero (spec S2).
INes(size, b0, prg, chr, flags6, flags7, fill) ==
    [size |-> size, hdr |-> <<b0, 69, 83, 26, prg, chr, flags6, flags7>>, fill |-> fill]

\* rom_data[i] of an image
ByteAt(img, i) ==
    IF i < 8 THEN img.hdr[i + 1] ELSE IF i < HEADER_SIZE THEN 0 ELSE img.fill

NROM        == INes(24592, 78, 1, 1, 0, 0, 0)         \* spec S2: mapper 0, CHR ROM
BadMagic    == INes(24592, 0, 1, 1, 0, 0, 0)          \* spec S3: byte 0 corrupted
UNROM       == INes(16400, 78, 1, 0, 32, 0, 234)      \* mapper 2, CHR RAM
ZeroPrg     == INes(24592, 78, 0, 3, 16, 0, 7)        \* no PRG bank, mapper 1
Truncated   == INes(16, 78, 2, 1, 48, 0, 0)           \* header only, mapper 3
TooShort    == INes(15, 78, 1, 1, 0, 0, 0)
Empty       == INes(0, 78, 1, 1, 0, 0, 0)
Negative    == INes(-1, 78, 1, 1, 0, 0, 0)
Largest     == INes(MAX_ROM_SIZE, 78, 1, 1, 0, 0, 85)
TooLarge    == INes(MAX_ROM_SIZE + 1, 78, 1, 1, 0, 0, 85)

Images == {NROM, BadMagic, UNROM, ZeroPrg, Truncated, TooShort, Empty, Negative,
           Largest, TooLarge}

\* Mutant of MagicOk: the first magic byte is not compared.
MagicOk_skips_first(img) ==
    /\ ByteAt(img, 1) = 69
    /\ ByteAt(img, 2) = 83
    /\ ByteAt(img, 3) = 26

\* rom[0] != 0x4E || rom[1] != 0x45 || rom[2] != 0x53 || rom[3] != 0x1A is false
MagicOk(img) ==
    /\ ByteAt(img, 0) = 78
    /\ ByteAt(img, 1) = 69
    /\ ByteAt(img, 2) = 83
    /\ ByteAt(img, 3) = 26

\* The header bytes the magic test reads: || stops at the first difference.
MagicReads(img) ==
    IF ByteAt(img, 0) # 78 THEN {0}
    ELSE IF ByteAt(img, 1) # 69 THEN {0, 1}
    ELSE IF ByteAt(img, 2) # 83 THEN {0, 1, 2}
    ELSE {0, 1, 2, 3}

\* mapper = (flags6 >> 4) | (flags7 & 0xF0), stored in an unsigned char.  The two
\* operands share no bit, so the bitwise or is their sum.
MapperOf(flags6, flags7) == U8((flags6 \div 16) + ((flags7 \div 16) * 16))

\* memcpy(rom_buffer, rom, size) seen at the sampled offsets
CopyRom(buf, img, size) ==
    [i \in RomProbe |-> IF i < size THEN ByteAt(img, i) ELSE buf[i]]

-----------------------------------------------------------------------------
(* The call record *)

NoCall ==
    [op |-> "none", ret |-> 0, image |-> Empty, button |-> 0, pressed |-> 0,
     rendered |-> FALSE, reads |-> {}]

Returned(op, ret) == [NoCall EXCEPT !.op = op, !.ret = ret]

-----------------------------------------------------------------------------
(* Palettes and cleared buffers *)

\* palette_data[64][3] of fceux-zero-imports.c (colors[64][3] of
\* nes-standalone.c holds the same 64 triples)
palette_data == <<
    <<84, 84, 84>>, <<0, 30, 116>>, <<8, 16, 144>>, <<48, 0, 136>>,
    <<68, 0, 100>>, <<92, 0, 48>>, <<84, 4, 0>>, <<60, 24, 0>>,
    <<32, 42, 0>>, <<8, 58, 0>>, <<0, 64, 0>>, <<0, 60, 0>>,
    <<0, 50, 60>>, <<0, 0, 0>>, <<0, 0, 0>>, <<0, 0, 0>>,
    <<152, 150, 152>>, <<8, 76, 196>>, <<48, 50, 236>>, <<92, 30, 228>>,
    <<136, 20, 176>>, <<160, 20, 100>>, <<152, 34, 32>>, <<120, 60, 0>>,
    <<84, 90, 0>>, <<40, 114, 0>>, <<8, 124, 0>>, <<0, 118, 40>>,
    <<0, 102, 120>>, <<0, 0, 0>>, <<0, 0, 0>>, <<0, 0, 0>>,
    <<236, 238, 236>>, <<76, 154, 236>>, <<120, 124, 236>>, <<176, 98, 236>>,
    <<228, 84, 236>>, <<236, 88, 180>>, <<236, 106, 100>>, <<212, 136, 32>>,
    <<160, 170, 0>>, <<116, 196, 0>>, <<76, 208, 32>>, <<56, 204, 108>>,
    <<56, 180, 204>>, <<60, 60, 60>>, <<0, 0, 0>>, <<0, 0, 0>>,
    <<236, 238, 236>>, <<168, 204, 236>>, <<188, 188, 236>>, <<212, 178, 236>>,
    <<236, 174, 236>>, <<236, 174, 212>>, <<236, 180, 176>>, <<228, 196, 144>>,
    <<204, 210, 120>>, <<180, 222, 120>>, <<168, 226, 144>>, <<152, 226, 180>>,
    <<160, 214, 228>>, <<160, 162, 160>>, <<0, 0, 0>>, <<0, 0, 0>> >>

\* nes_palette after init_nes_palette / init_palette of the canonical table:
\* entry i is the bytes nes_palette[i * 4 + 0 .. i * 4 + 3]
CanonicalPalette ==
    [i \in PalProbe |->
        <<palette_data[i + 1][1], palette_data[i + 1][2], palette_data[i + 1][3], 255>>]

\* a zero-filled palette table (static storage, memset in init)
ZeroPalette == [i \in PalProbe |-> <<0, 0, 0, 0>>]

\* frame_buffer in static storage: every byte 0
ZeroFrame == [p \in Pixels |-> <<0, 0, 0, 0>>]

\* Mutant of ClearedFrame: the alpha loop is missing.
ClearedFrame_no_alpha == [p \in Pixels |-> <<0, 0, 0, 0>>]

\* memset(frame_buffer, 0, ...) followed by the loop that sets every 4th byte to 255
ClearedFrame == [p \in Pixels |-> <<0, 0, 0, 255>>]

ZeroRom == [i \in RomProbe |-> 0]

ZeroChr == [i \in ChrProbe |-> 0]

-----------------------------------------------------------------------------
(* Frame generators: the pixel each variant writes at (x, y) *)

\* The controller modulation shared by fceux-zero-imports.c, nes-standalone.c
\* and zero-imports.c, in the order of the source: Right, Left on r; Down, Up
\* on g; A, B on b.
ModRed(r, ctl) ==
    LET r1 == IF Bit(ctl, 0) = 1 THEN U8(r + 64) ELSE r
    IN  IF Bit(ctl, 1) = 1 THEN U8(r1 - 32) ELSE r1

ModGreen(g, ctl) ==
    LET g1 == IF Bit(ctl, 2) = 1 THEN U8(g + 64) ELSE g
    IN  IF Bit(ctl, 3) = 1 THEN U8(g1 - 32) ELSE g1

\* Mutant of ModBlue: the amounts of A and B are exchanged.
ModBlue_swapped(b, ctl) ==
    LET b1 == IF Bit(ctl, 7) = 1 THEN U8(b + 96) ELSE b
    IN  IF Bit(ctl, 6) = 1 THEN U8(b1 + 128) ELSE b1

ModBlue(b, ctl) ==
    LET b1 == IF Bit(ctl, 7) = 1 THEN U8(b + 128) ELSE b
    IN  IF Bit(ctl, 6) = 1 THEN U8(b1 + 96) ELSE b1

\* Mutant of fz_pixel: the palette index does not follow the frame counter.
fz_pixel_frozen(x, y, fc, ctl, map, chrram, pal) ==
    LET base_color == ((x \div 8) + (y \div 8)) % 64
        r  == ModRed(pal[base_color][1], ctl)
        g  == ModGreen(pal[base_color][2], ctl)
        b  == ModBlue(pal[base_color][3], ctl)
        fx == map = 2 /\ chrram # 0 /\ Bit(x + y, 3) = 1
    IN  <<IF fx THEN U8(r + 32) ELSE r, g, IF fx THEN U8(b + 32) ELSE b, 255>>

\* fceux-zero-imports.c generate_nes_frame, one pixel; fc is the counter after
\* frame_count++
fz_pixel(x, y, fc, ctl, map, chrram, pal) ==
    LET base_color == ((x \div 8) + (y \div 8) + (fc \div 4)) % 64
        r  == ModRed(pal[base_color][1], ctl)
        g  == ModGreen(pal[base_color][2], ctl)
        b  == ModBlue(pal[base_color][3], ctl)
        fx == map = 2 /\ chrram # 0 /\ Bit(x + y, 3) = 1
    IN  <<IF fx THEN U8(r + 32) ELSE r, g, IF fx THEN U8(b + 32) ELSE b, 255>>

fz_generate_nes_frame(fc, ctl, map, chrram, pal) ==
    [p \in Pixels |-> fz_pixel(PX(p), PY(p), fc, ctl, map, chrram, pal)]

\* nes-standalone.c generate_frame, one pixel
ns_pixel(x, y, fc, ctl, pal) ==
    LET color_idx == ((x \div 8) + (y \div 8) + (fc \div 4)) % 64
    IN  <<ModRed(pal[color_idx][1], ctl),
          ModGreen(pal[color_idx][2], ctl),
          ModBlue(pal[color_idx][3], ctl),
          255>>

ns_generate_frame(fc, ctl, pal) ==
    [p \in Pixels |-> ns_pixel(PX(p), PY(p), fc, ctl, pal)]

\* zero-imports.c render_frame, one pixel
zi_pixel(x, y, fc, ctl) ==
    <<ModRed((x + fc) % 256, ctl),
      ModGreen((y + fc) % 256, ctl),
      ModBlue((x + y + fc) % 256, ctl),
      255>>

zi_render_frame(fc, ctl) ==
    [p \in Pixels |-> zi_pixel(PX(p), PY(p), fc, ctl)]

\* fceux-simple.c frame, one pixel of each of its three mapper branches
fs_pixel(x, y, fc, ctl, map, chrram, chr) ==
    IF map = 0 THEN
        <<(x + fc) % 256, 32, (y + fc) % 256, 255>>
    ELSE IF map = 2 THEN
        LET base_color == IF chrram # 0 THEN chr[(x + y * 16) % CHR_RAM_SIZE] ELSE 64
            r == 64
            g == (base_color + fc) % 256
            b == (x + y + fc) % 256
        IN  <<IF Bit(ctl, 0) = 1 THEN U8(r + 64) ELSE r,
              IF Bit(ctl, 1) = 1 THEN U8(g + 64) ELSE g,
              IF Bit(ctl, 7) = 1 THEN U8(b + 64) ELSE b,
              255>>
    ELSE
        <<(x * 2 + fc) % 256, (y * 2 + fc) % 256, 96, 255>>

fs_render(fc, ctl, map, chrram, chr) ==
    [p \in Pixels |-> fs_pixel(PX(p), PY(p), fc, ctl, map, chrram, chr)]

\* The synthetic palette.  zero-imports.c init_palette writes the four bytes
\* of entry i; fceux-simple.c init stores the same entry as the 32-bit word
\* (0xFF << 24) | (b << 16) | (g << 8) | r, whose bytes in (little-endian)
\* linear memory are r, g, b, 255.
SyntheticPalette ==
    [i \in PalProbe |-> <<(i * 4) % 256, (i * 8) % 256, (i * 16) % 256, 255>>]

\* fceux-simple.c loadRom: chr_ram[i] = i & 0xFF
PatternChr == [i \in ChrProbe |-> i % 256]

\* Mutant of NextFrameCount: the counter is bumped twice per frame.
NextFrameCount_twice(fc) == fc + 2

\* frame_count++ on a 32-bit unsigned.  FrameBudget keeps every reachable
\* counter far below 2^32, where the C counter wraps to 0.
NextFrameCount(fc) == fc + 1

\* Mutant of SetControlBit: a release clears the whole controller word.
SetControlBit_release_all(ctl, button, pressed) ==
    IF pressed # 0 THEN OrBit(ctl, button) ELSE 0

\* setButton's update of the controller word: controls |= mask or
\* controls &= ~mask with mask = 1 << button
SetControlBit(ctl, button, pressed) ==
    IF pressed # 0 THEN OrBit(ctl, button) ELSE ClearBit(ctl, button)

\* Mutant of ButtonRejected: the upper range test is missing.
ButtonRejected_no_upper(button) == button < 0

\* the range test of setButton: button < 0 || button > 7
ButtonRejected(button) == button < 0 \/ button > 7

-----------------------------------------------------------------------------
(* Initial state: the statics as the C files declare them, before any call *)

Init ==
    /\ variant \in Variants
    /\ initialized = 0
    /\ rom_loaded = 0
    /\ running = 0
    /\ controls = 0
    /\ frame_count = 0
    /\ rom_size = 0
    /\ prg_banks = 0
    /\ chr_banks = 0
    /\ mapper = 0
    /\ has_chr_ram = 0
    /\ has_trainer = 0
    /\ has_battery = 0
    /\ frame_buffer = ZeroFrame
    /\ palette = ZeroPalette
    /\ rom_buffer = ZeroRom
    /\ chr_ram = ZeroChr
    /\ last = NoCall

\* Arguments the host passes
Buttons    == {-1, 0, 9}
PressedArg == {0, 1}
RunArg     == {0, 2}

\* Mutant of AlreadyInitialized: init has no early return.
AlreadyInitialized_never == FALSE

\* if (initialized) return 1;  -- the first statement of every init
AlreadyInitialized == initialized # 0

\* The model stops a run after MaxFrames rendered frames since the last
\* reset or init.
FrameBudget == frame_count < MaxFrames

-----------------------------------------------------------------------------
(* fceux-zero-imports.c *)

fz_init ==
    /\ variant = "fceux-zero-imports"
    /\ IF AlreadyInitialized
         THEN UNCHANGED module_state
         ELSE /\ frame_buffer' = ClearedFrame
              /\ palette' = CanonicalPalette
              /\ rom_buffer' = ZeroRom
              /\ controls' = 0
              /\ frame_count' = 0
              /\ rom_loaded' = 0
              /\ running' = 0
              /\ rom_size' = 0
              /\ initialized' = 1
              /\ UNCHANGED <<prg_banks, chr_banks, mapper, has_chr_ram,
                             has_trainer, has_battery, chr_ram>>
    /\ last' = Returned("init", 1)
    /\ UNCHANGED variant

\* Mutant of fz_rejects_unread: the minimum-size test is missing.
fz_rejects_unread_no_min(size) ==
    initialized = 0 \/ size > MAX_ROM_SIZE

\* the three tests of loadRom that come before any header byte is read
fz_rejects_unread(size) ==
    initialized = 0 \/ size < HEADER_SIZE \/ size > MAX_ROM_SIZE

fz_loadRom(img) ==
    /\ variant = "fceux-zero-imports"
    /\ UNCHANGED <<variant, initialized, running, controls, frame_count,
                   frame_buffer, palette, has_trainer, has_battery, chr_ram>>
    /\ IF fz_rejects_unread(img.size) THEN
            /\ UNCHANGED rom_state
            /\ last' = [Returned("loadRom", 0) EXCEPT !.image = img]
       ELSE IF ~MagicOk(img) THEN
            /\ UNCHANGED rom_state
            /\ last' = [Returned("loadRom", 0) EXCEPT !.image = img,
                                                      !.reads = MagicReads(img)]
       ELSE
            \* the header fields are stored before the PRG test
            /\ prg_banks' = ByteAt(img, 4)
            /\ chr_banks' = ByteAt(img, 5)
            /\ mapper' = MapperOf(ByteAt(img, 6), ByteAt(img, 7))
            /\ has_chr_ram' = IF ByteAt(img, 5) = 0 THEN 1 ELSE 0
            /\ IF ByteAt(img, 4) = 0 THEN
                    /\ UNCHANGED <<rom_buffer, rom_size, rom_loaded>>
                    /\ last' = [Returned("loadRom", 0) EXCEPT !.image = img,
                                                              !.reads = 0..7]
               ELSE
                    /\ rom_buffer' = CopyRom(rom_buffer, img, img.size)
                    /\ rom_size' = img.size
                    /\ rom_loaded' = 1
                    /\ last' = [Returned("loadRom", 1) EXCEPT !.image = img,
                                                              !.reads = 0..7]

\* if (!initialized || !rom_loaded) return;
fz_frame_gated_off == initialized = 0 \/ rom_loaded = 0

fz_frame ==
    /\ variant = "fceux-zero-imports"
    /\ IF fz_frame_gated_off THEN
            /\ UNCHANGED module_state
            /\ last' = Returned("frame", 0)
       ELSE
            /\ FrameBudget
            /\ frame_count' = NextFrameCount(frame_count)
            /\ frame_buffer' = fz_generate_nes_frame(NextFrameCount(frame_count),
                                   controls, mapper, has_chr_ram, palette)
            /\ last' = [Returned("frame", 0) EXCEPT !.rendered = TRUE]
            /\ UNCHANGED <<initialized, rom_loaded, running, controls, rom_size,
                           prg_banks, chr_banks, mapper, has_chr_ram, has_trainer,
                           has_battery, palette, rom_buffer, chr_ram>>
    /\ UNCHANGED variant

\* Mutant of fz_reset: the reset also drops the loaded ROM.
fz_reset_unloads ==
    /\ variant = "fceux-zero-imports"
    /\ controls' = 0
    /\ running' = 0
    /\ frame_count' = 0
    /\ rom_loaded' = 0
    /\ frame_buffer' = ClearedFrame
    /\ last' = Returned("reset", 0)
    /\ UNCHANGED <<variant, initialized, rom_size, prg_banks, chr_banks,
                   mapper, has_chr_ram, has_trainer, has_battery, palette,
                   rom_buffer, chr_ram>>

\* Mutant of fz_reset: frame_count is not set back to 0.
fz_reset_keeps_count ==
    /\ variant = "fceux-zero-imports"
    /\ controls' = 0
    /\ running' = 0
    /\ frame_buffer' = ClearedFrame
    /\ last' = Returned("reset", 0)
    /\ UNCHANGED <<variant, initialized, rom_loaded, frame_count, rom_size,
                   prg_banks, chr_banks, mapper, has_chr_ram, has_trainer,
                   has_battery, palette, rom_buffer, chr_ram>>

fz_reset ==
    /\ variant = "fceux-zero-imports"
    /\ controls' = 0
    /\ running' = 0
    /\ frame_count' = 0
    /\ frame_buffer' = ClearedFrame
    /\ last' = Returned("reset", 0)
    /\ UNCHANGED <<variant, initialized, rom_loaded, rom_size, prg_banks,
                   chr_banks, mapper, has_chr_ram, has_trainer, has_battery,
                   palette, rom_buffer, chr_ram>>

fz_setButton(button, pressed) ==
    /\ variant = "fceux-zero-imports"
    /\ controls' = IF ButtonRejected(button) THEN controls
                   ELSE SetControlBit(controls, button, pressed)
    /\ last' = [Returned("setButton", 0) EXCEPT !.button = button,
                                                !.pressed = pressed]
    /\ UNCHANGED <<variant, initialized, rom_loaded, running, frame_count,
                   rom_size, prg_banks, chr_banks, mapper, has_chr_ram,
                   has_trainer, has_battery, frame_buffer, palette, rom_buffer,
                   chr_ram>>

\* Mutant of fz_setRunning: the call also clears the frame buffer.
fz_setRunning_clears(run_state) ==
    /\ variant = "fceux-zero-imports"
    /\ running' = IF run_state # 0 THEN 1 ELSE 0
    /\ frame_buffer' = ClearedFrame
    /\ last' = Returned("setRunning", 0)
    /\ UNCHANGED <<variant, initialized, rom_loaded, controls, frame_count,
                   rom_size, prg_banks, chr_banks, mapper, has_chr_ram,
                   has_trainer, has_battery, palette, rom_buffer, chr_ram>>

\* Mutant of fz_setRunning: the stored flag does not follow the argument.
fz_setRunning_any(run_state) ==
    /\ variant = "fceux-zero-imports"
    /\ running' \in {0, 1}
    /\ last' = Returned("setRunning", 0)
    /\ UNCHANGED <<variant, initialized, rom_loaded, controls, frame_count,
                   rom_size, prg_banks, chr_banks, mapper, has_chr_ram,
                   has_trainer, has_battery, frame_buffer, palette, rom_buffer,
                   chr_ram>>

fz_setRunning(run_state) ==
    /\ variant = "fceux-zero-imports"
    /\ running' = IF run_state # 0 THEN 1 ELSE 0
    /\ last' = Returned("setRunning", 0)
    /\ UNCHANGED <<variant, initialized, rom_loaded, controls, frame_count,
                   rom_size, prg_banks, chr_banks, mapper, has_chr_ram,
                   has_trainer, has_battery, frame_buffer, palette, rom_buffer,
                   chr_ram>>

-----------------------------------------------------------------------------
(* fceux-simple.c *)

fs_init ==
    /\ variant = "fceux-simple"
    /\ IF AlreadyInitialized
         THEN UNCHANGED module_state
         ELSE /\ rom_buffer' = ZeroRom
              /\ frame_buffer' = ClearedFrame
              /\ chr_ram' = ZeroChr
              /\ palette' = SyntheticPalette
              /\ controls' = 0
              /\ rom_loaded' = 0
              /\ running' = 0
              /\ frame_count' = 0
              /\ initialized' = 1
              /\ UNCHANGED <<rom_size, prg_banks, chr_banks, mapper, has_chr_ram,
                             has_trainer, has_battery>>
    /\ last' = Returned("init", 1)
    /\ UNCHANGED variant

\* The size parameter is a uint32_t: a negative int of the host arrives as a
\* value of at least 2^31, which is not < 16 and is > sizeof(rom_data).
fs_rejects_unread(size) ==
    \/ initialized = 0
    \/ (size >= 0 /\ size < HEADER_SIZE)
    \/ (size < 0 \/ size > MAX_ROM_SIZE)

\* Mutant of fs_expected_size: the trainer is not counted.
fs_expected_size_no_trainer(img) ==
    HEADER_SIZE
        + ByteAt(img, 4) * PRG_BANK_SIZE
        + ByteAt(img, 5) * CHR_BANK_SIZE

\* expected_size of loadRom: header, trainer, PRG ROM, CHR ROM
fs_expected_size(img) ==
    HEADER_SIZE
        + (IF Bit(ByteAt(img, 6), 2) = 1 THEN TRAINER_SIZE ELSE 0)
        + ByteAt(img, 4) * PRG_BANK_SIZE
        + ByteAt(img, 5) * CHR_BANK_SIZE

fs_loadRom(img) ==
    /\ variant = "fceux-simple"
    /\ UNCHANGED <<variant, initialized, running, controls, frame_count,
                   frame_buffer, palette>>
    /\ IF fs_rejects_unread(img.size) THEN
            /\ UNCHANGED rom_state
            /\ last' = [Returned("loadRom", 0) EXCEPT !.image = img]
       ELSE IF ~MagicOk(img) THEN
            /\ UNCHANGED rom_state
            /\ last' = [Returned("loadRom", 0) EXCEPT !.image = img,
                                                      !.reads = MagicReads(img)]
       ELSE
            \* the header fields are stored before the PRG and size tests
            /\ prg_banks' = ByteAt(img, 4)
            /\ chr_banks' = ByteAt(img, 5)
            /\ mapper' = MapperOf(ByteAt(img, 6), ByteAt(img, 7))
            /\ has_trainer' = IF Bit(ByteAt(img, 6), 2) # 0 THEN 1 ELSE 0
            /\ has_battery' = IF Bit(ByteAt(img, 6), 1) # 0 THEN 1 ELSE 0
            /\ has_chr_ram' = IF ByteAt(img, 5) = 0 THEN 1 ELSE 0
            /\ IF ByteAt(img, 4) = 0 \/ img.size < fs_expected_size(img) THEN
                    /\ UNCHANGED <<rom_buffer, rom_size, rom_loaded, chr_ram>>
                    /\ last' = [Returned("loadRom", 0) EXCEPT !.image = img,
                                                              !.reads = 0..7]
               ELSE
                    /\ rom_buffer' = CopyRom(rom_buffer, img, img.size)
                    /\ rom_size' = img.size
                    /\ chr_ram' = IF ByteAt(img, 5) = 0 THEN PatternChr ELSE chr_ram
                    /\ rom_loaded' = 1
                    /\ last' = [Returned("loadRom", 1) EXCEPT !.image = img,
                                                              !.reads = 0..7]

\* if (!initialized || !rom_loaded || !running) return;
fs_frame_gated_off == initialized = 0 \/ rom_loaded = 0 \/ running = 0

fs_frame ==
    /\ variant = "fceux-simple"
    /\ IF fs_frame_gated_off THEN
            /\ UNCHANGED module_state
            /\ last' = Returned("frame", 0)
       ELSE
            /\ FrameBudget
            /\ frame_count' = NextFrameCount(frame_count)
            /\ frame_buffer' = fs_render(NextFrameCount(frame_count), controls,
                                   mapper, has_chr_ram, chr_ram)
            /\ last' = [Returned("frame", 0) EXCEPT !.rendered = TRUE]
            /\ UNCHANGED <<initialized, rom_loaded, running, controls, rom_size,
                           prg_banks, chr_banks, mapper, has_chr_ram, has_trainer,
                           has_battery, palette, rom_buffer, chr_ram>>
    /\ UNCHANGED variant

fs_reset ==
    /\ variant = "fceux-simple"
    /\ controls' = 0
    /\ frame_count' = 0
    /\ frame_buffer' = ClearedFrame
    /\ chr_ram' = IF has_chr_ram # 0 THEN ZeroChr ELSE chr_ram
    /\ last' = Returned("reset", 0)
    /\ UNCHANGED <<variant, initialized, rom_loaded, running, rom_size,
                   prg_banks, chr_banks, mapper, has_chr_ram, has_trainer,
                   has_battery, palette, rom_buffer>>

fs_setButton(button, pressed) ==
    /\ variant = "fceux-simple"
    /\ controls' = IF ButtonRejected(button) THEN controls
                   ELSE SetControlBit(controls, button, pressed)
    /\ last' = [Returned("setButton", 0) EXCEPT !.button = button,
                                                !.pressed = pressed]
    /\ UNCHANGED <<variant, initialized, rom_loaded, running, frame_count,
                   rom_size, prg_banks, chr_banks, mapper, has_chr_ram,
                   has_trainer, has_battery, frame_buffer, palette, rom_buffer,
                   chr_ram>>

fs_setRunning(is_running) ==
    /\ variant = "fceux-simple"
    /\ running' = is_running
    /\ last' = Returned("setRunning", 0)
    /\ UNCHANGED <<variant, initialized, rom_loaded, controls, frame_count,
                   rom_size, prg_banks, chr_banks, mapper, has_chr_ram,
                   has_trainer, has_battery, frame_buffer, palette, rom_buffer,
                   chr_ram>>

-----------------------------------------------------------------------------
(* nes-standalone.c *)

ns_init ==
    /\ variant = "nes-standalone"
    /\ IF AlreadyInitialized
         THEN UNCHANGED module_state
         ELSE /\ frame_buffer' = ClearedFrame
              /\ palette' = CanonicalPalette
              /\ rom_buffer' = ZeroRom
              /\ controls' = 0
              /\ frame_count' = 0
              /\ rom_loaded' = 0
              /\ rom_size' = 0
              /\ mapper' = 0
              /\ initialized' = 1
              /\ UNCHANGED <<running, prg_banks, chr_banks, has_chr_ram,
                             has_trainer, has_battery, chr_ram>>
    /\ last' = Returned("init", 1)
    /\ UNCHANGED variant

\* if (!initialized || size < 16 || size > sizeof(rom_buffer)) return 0;
ns_rejects_unread(size) ==
    initialized = 0 \/ size < HEADER_SIZE \/ size > MAX_ROM_SIZE

ns_loadRom(img) ==
    /\ variant = "nes-standalone"
    /\ UNCHANGED <<variant, initialized, running, controls, frame_count,
                   frame_buffer, palette, prg_banks, chr_banks, has_chr_ram,
                   has_trainer, has_battery, chr_ram>>
    /\ IF ns_rejects_unread(img.size) THEN
            /\ UNCHANGED <<rom_loaded, rom_size, mapper, rom_buffer>>
            /\ last' = [Returned("loadRom", 0) EXCEPT !.image = img]
       ELSE IF ~MagicOk(img) THEN
            /\ UNCHANGED <<rom_loaded, rom_size, mapper, rom_buffer>>
            /\ last' = [Returned("loadRom", 0) EXCEPT !.image = img,
                                                      !.reads = MagicReads(img)]
       ELSE
            /\ mapper' = MapperOf(ByteAt(img, 6), ByteAt(img, 7))
            /\ rom_buffer' = CopyRom(rom_buffer, img, img.size)
            /\ rom_size' = img.size
            /\ rom_loaded' = 1
            /\ last' = [Returned("loadRom", 1) EXCEPT !.image = img,
                                                      !.reads = (0..3) \cup {6, 7}]

\* if (!initialized) return;
ns_frame_gated_off == initialized = 0

ns_frame ==
    /\ variant = "nes-standalone"
    /\ IF ns_frame_gated_off THEN
            /\ UNCHANGED module_state
            /\ last' = Returned("frame", 0)
       ELSE
            /\ FrameBudget
            /\ frame_count' = NextFrameCount(frame_count)
            /\ frame_buffer' = ns_generate_frame(NextFrameCount(frame_count),
                                   controls, palette)
            /\ last' = [Returned("frame", 0) EXCEPT !.rendered = TRUE]
            /\ UNCHANGED <<initialized, rom_loaded, running, controls, rom_size,
                           prg_banks, chr_banks, mapper, has_chr_ram, has_trainer,
                           has_battery, palette, rom_buffer, chr_ram>>
    /\ UNCHANGED variant

ns_reset ==
    /\ variant = "nes-standalone"
    /\ controls' = 0
    /\ frame_count' = 0
    /\ frame_buffer' = ClearedFrame
    /\ last' = Returned("reset", 0)
    /\ UNCHANGED <<variant, initialized, rom_loaded, running, rom_size,
                   prg_banks, chr_banks, mapper, has_chr_ram, has_trainer,
                   has_battery, palette, rom_buffer, chr_ram>>

ns_setButton(button, pressed) ==
    /\ variant = "nes-standalone"
    /\ controls' = IF ButtonRejected(button) THEN controls
                   ELSE SetControlBit(controls, button, pressed)
    /\ last' = [Returned("setButton", 0) EXCEPT !.button = button,
                                                !.pressed = pressed]
    /\ UNCHANGED <<variant, initialized, rom_loaded, running, frame_count,
                   rom_size, prg_banks, chr_banks, mapper, has_chr_ram,
                   has_trainer, has_battery, frame_buffer, palette, rom_buffer,
                   chr_ram>>

\* the body of setRunning is empty
ns_setRunning(run_state) ==
    /\ variant = "nes-standalone"
    /\ last' = Returned("setRunning", 0)
    /\ UNCHANGED <<variant, module_state>>

-----------------------------------------------------------------------------
(* zero-imports.c *)

zi_init ==
    /\ variant = "zero-imports"
    /\ IF AlreadyInitialized
         THEN UNCHANGED module_state
         ELSE /\ frame_buffer' = ClearedFrame
              /\ palette' = SyntheticPalette
              /\ rom_buffer' = ZeroRom
              /\ controls' = 0
              /\ frame_count' = 0
              /\ rom_loaded' = 0
              /\ rom_size' = 0
              /\ initialized' = 1
              /\ UNCHANGED <<running, prg_banks, chr_banks, mapper, has_chr_ram,
                             has_trainer, has_battery, chr_ram>>
    /\ last' = Returned("init", 1)
    /\ UNCHANGED variant

\* if (!initialized || size < 16 || size > sizeof(rom_buffer)) return 0;
zi_rejects_unread(size) ==
    initialized = 0 \/ size < HEADER_SIZE \/ size > MAX_ROM_SIZE

zi_loadRom(img) ==
    /\ variant = "zero-imports"
    /\ UNCHANGED <<variant, initialized, running, controls, frame_count,
                   frame_buffer, palette, prg_banks, chr_banks, mapper,
                   has_chr_ram, has_trainer, has_battery, chr_ram>>
    /\ IF zi_rejects_unread(img.size) THEN
            /\ UNCHANGED <<rom_loaded, rom_size, rom_buffer>>
            /\ last' = [Returned("loadRom", 0) EXCEPT !.image = img]
       ELSE IF ~MagicOk(img) THEN
            /\ UNCHANGED <<rom_loaded, rom_size, rom_buffer>>
            /\ last' = [Returned("loadRom", 0) EXCEPT !.image = img,
                                                      !.reads = MagicReads(img)]
       ELSE
            /\ rom_buffer' = CopyRom(rom_buffer, img, img.size)
            /\ rom_size' = img.size
            /\ rom_loaded' = 1
            /\ last' = [Returned("loadRom", 1) EXCEPT !.image = img,
                                                      !.reads = 0..3]

\* if (!initialized) return;
zi_frame_gated_off == initialized = 0

zi_frame ==
    /\ variant = "zero-imports"
    /\ IF zi_frame_gated_off THEN
            /\ UNCHANGED module_state
            /\ last' = Returned("frame", 0)
       ELSE
            /\ FrameBudget
            /\ frame_count' = NextFrameCount(frame_count)
            /\ frame_buffer' = zi_render_frame(NextFrameCount(frame_count), controls)
            /\ last' = [Returned("frame", 0) EXCEPT !.rendered = TRUE]
            /\ UNCHANGED <<initialized, rom_loaded, running, controls, rom_size,
                           prg_banks, chr_banks, mapper, has_chr_ram, has_trainer,
                           has_battery, palette, rom_buffer, chr_ram>>
    /\ UNCHANGED variant

zi_reset ==
    /\ variant = "zero-imports"
    /\ controls' = 0
    /\ frame_count' = 0
    /\ frame_buffer' = ClearedFrame
    /\ last' = Returned("reset", 0)
    /\ UNCHANGED <<variant, initialized, rom_loaded, running, rom_size,
                   prg_banks, chr_banks, mapper, has_chr_ram, has_trainer,
                   has_battery, palette, rom_buffer, chr_ram>>

zi_setButton(button, pressed) ==
    /\ variant = "zero-imports"
    /\ controls' = IF ButtonRejected(button) THEN controls
                   ELSE SetControlBit(controls, button, pressed)
    /\ last' = [Returned("setButton", 0) EXCEPT !.button = button,
                                                !.pressed = pressed]
    /\ UNCHANGED <<variant, initialized, rom_loaded, running, frame_count,
                   rom_size, prg_banks, chr_banks, mapper, has_chr_ram,
                   has_trainer, has_battery, frame_buffer, palette, rom_buffer,
                   chr_ram>>

\* the body of setRunning is empty
zi_setRunning(run_state) ==
    /\ variant = "zero-imports"
    /\ last' = Returned("setRunning", 0)
    /\ UNCHANGED <<variant, module_state>>

-----------------------------------------------------------------------------
(* The host: any entry point of the running variant, with any argument *)

Next ==
    \/ fz_init
    \/ \E img \in Images : fz_loadRom(img)
    \/ fz_frame
    \/ fz_reset
    \/ \E button \in Buttons, pressed \in PressedArg : fz_setButton(button, pressed)
    \/ \E run_state \in RunArg : fz_setRunning(run_state)
    \/ fs_init
    \/ \E img \in Images : fs_loadRom(img)
    \/ fs_frame
    \/ fs_reset
    \/ \E button \in Buttons, pressed \in PressedArg : fs_setButton(button, pressed)
    \/ \E is_running \in RunArg : fs_setRunning(is_running)
    \/ ns_init
    \/ \E img \in Images : ns_loadRom(img)
    \/ ns_frame
    \/ ns_reset
    \/ \E button \in Buttons, pressed \in PressedArg : ns_setButton(button, pressed)
    \/ \E run_state \in RunArg : ns_setRunning(run_state)
    \/ zi_init
    \/ \E img \in Images : zi_loadRom(img)
    \/ zi_frame
    \/ zi_reset
    \/ \E button \in Buttons, pressed \in PressedArg : zi_setButton(button, pressed)
    \/ \E run_state \in RunArg : zi_setRunning(run_state)

Spec == Init /\ [][Next]_vars

-----------------------------------------------------------------------------
(* Claims *)

RejectedLoad == last'.op = "loadRom" /\ last'.ret = 0

\* C1: a loadRom call that returns 0 changes no module state, whatever the
\* cause of the failure and whatever was loaded before.
C1_FailedLoadChangesNothing ==
    [][RejectedLoad => UNCHANGED module_state]_vars

\* C2: whenever initialized and rom_loaded are both true, frame() renders:
\* it adds 1 to frame_count and rewrites the frame buffer, whatever running is.
C2_FrameRendersWhenLoaded ==
    [][(last'.op = "frame" /\ initialized # 0 /\ rom_loaded # 0)
          => (last'.rendered /\ frame_count' = frame_count + 1)]_vars

\* C3: while rom_loaded is false, frame() is a no-op: frame_count and the
\* frame buffer are the same after the call as before.
C3_FrameWithoutRomIsNoOp ==
    [][(last'.op = "frame" /\ rom_loaded = 0)
          => (frame_count' = frame_count /\ frame_buffer' = frame_buffer)]_vars

\* C4: a frame() call that renders adds exactly 1 to frame_count; every other
\* call (a gated-off frame, loadRom, setButton, setRunning, a repeated init)
\* leaves it as it was, except that init and reset may set it to 0.
C4_FrameCountStepsByOne ==
    [][IF last'.op = "frame" /\ last'.rendered
         THEN frame_count' = frame_count + 1
         ELSE \/ frame_count' = frame_count
              \/ (last'.op \in {"init", "reset"} /\ frame_count' = 0)]_vars

\* C4 witness: two frames have rendered since the last reset or init.
C4_Witness == last.op = "frame" /\ last.rendered /\ frame_count = 2

\* C5: once init has returned, the alpha byte of every pixel is 255.
C5_AlphaOpaque ==
    initialized # 0 => \A p \in Pixels : frame_buffer[p][4] = 255

\* C5 witness: a rendered frame with a coloured pixel.
C5_Witness ==
    /\ initialized # 0
    /\ last.op = "frame"
    /\ last.rendered
    /\ \E p \in Pixels : frame_buffer[p][1] # 0

\* C6: init on an initialized module returns 1 and changes no state.
C6_InitIdempotent ==
    [][(last'.op = "init" /\ initialized # 0)
          => (last'.ret = 1 /\ UNCHANGED module_state)]_vars

\* C6 witness: init has returned on a module with a ROM loaded, a button held
\* and frames rendered (the first init leaves none of these).
C6_Witness ==
    /\ last.op = "init"
    /\ rom_loaded # 0
    /\ controls # 0
    /\ frame_count > 0

\* C7: before init, loadRom returns 0 and frame, reset, setButton and
\* setRunning leave all module state as it was.
C7_UninitializedCallsAreNoOps ==
    [][(initialized = 0 /\ last'.op # "init")
          => (UNCHANGED module_state /\ (last'.op = "loadRom" => last'.ret = 0))]_vars

\* C8: loadRom returns 0 and leaves rom_loaded unchanged for every image whose
\* header byte 4 (PRG bank count) is 0.
C8_ZeroPrgRejected ==
    [][(last'.op = "loadRom" /\ ByteAt(last'.image, 4) = 0)
          => (last'.ret = 0 /\ rom_loaded' = rom_loaded)]_vars

\* C9: loadRom returns 0 and leaves rom_loaded unchanged when size < 16, when
\* size > 2097152 and when the magic is wrong; it reads no header byte of an
\* image shorter than 16 bytes.
C9_SizeAndMagicRejected ==
    [][(/\ last'.op = "loadRom"
        /\ \/ last'.image.size < 16
           \/ last'.image.size > 2097152
           \/ ~MagicOk(last'.image))
          => (/\ last'.ret = 0
              /\ rom_loaded' = rom_loaded
              /\ (last'.image.size < 16 => last'.reads = {}))]_vars

\* C9 witness: a 15-byte image with a valid magic has been refused by an
\* initialized module that holds a ROM.
C9_Witness ==
    /\ last.op = "loadRom"
    /\ last.image = TooShort
    /\ last.ret = 0
    /\ initialized # 0
    /\ rom_loaded # 0

\* C10: setButton with a button outside 0..7 leaves controls and all other
\* state unchanged.
C10_BadButtonIgnored ==
    [][(last'.op = "setButton" /\ (last'.button < 0 \/ last'.button > 7))
          => UNCHANGED module_state]_vars

\* C10 witness: setButton(9, 1) has returned while Right was held and a ROM
\* was loaded (spec S6).
C10_Witness ==
    /\ last.op = "setButton"
    /\ last.button = 9
    /\ last.pressed = 1
    /\ controls = 1
    /\ rom_loaded # 0

\* The variants that keep the bank counts and has_chr_ram of the header.
KeepsBankCounts == variant \in {"fceux-simple", "fceux-zero-imports"}

\* C11: whenever rom_loaded is true, the recorded metadata describes the ROM
\* held in the staging buffer: mapper == (rom[6] >> 4) | (rom[7] & 0xF0), in
\* 0..255; has_chr_ram iff rom[5] == 0; prg_banks == rom[4] >= 1;
\* chr_banks == rom[5] (so no call but an accepted loadRom revises them).
C11_MetadataDescribesRom ==
    (KeepsBankCounts /\ rom_loaded # 0)
        => /\ mapper = (rom_buffer[6] \div 16) + ((rom_buffer[7] \div 16) * 16)
           /\ mapper \in 0..255
           /\ (has_chr_ram # 0) <=> (rom_buffer[5] = 0)
           /\ prg_banks = rom_buffer[4]
           /\ prg_banks >= 1
           /\ chr_banks = rom_buffer[5]

\* C12: rom_loaded implies that the staging buffer starts with 4E 45 53 1A
\* and that 16 <= rom_size <= 2097152.
C12_LoadedRomHasMagic ==
    rom_loaded # 0
        => /\ rom_buffer[0] = 78
           /\ rom_buffer[1] = 69
           /\ rom_buffer[2] = 83
           /\ rom_buffer[3] = 26
           /\ 16 <= rom_size
           /\ rom_size <= 2097152

\* C12 witness: the largest image is held and an image with a corrupted magic
\* has just been refused.
C12_Witness ==
    /\ rom_loaded # 0
    /\ rom_size = 2097152
    /\ last.op = "loadRom"
    /\ last.image = BadMagic
    /\ last.ret = 0

\* The variants whose renderer adds frame_count itself to the colour bytes
\* (the others index the palette with frame_count >> 2).
LinearRenderer == variant \in {"zero-imports", "fceux-simple"}

\* A frame() that renders with a mapper-0 ROM loaded and no button held.
RendersMapper0 ==
    /\ rom_loaded # 0
    /\ mapper = 0
    /\ controls = 0
    /\ last'.op = "frame"
    /\ last'.rendered

\* The call before this one was a rendering frame() too.
FrameAfterFrame == last.op = "frame" /\ last.rendered

\* At least one R, G or B byte of the buffer is not zero.
SomeColour(fb) == \E p \in Pixels, k \in 1..3 : fb[p][k] # 0

\* C13 (as stated): with a mapper-0 ROM loaded, the first frame() gives
\* frame_count == 1 and at least one non-zero RGB byte, and the second frame()
\* gives frame_count == 2 and a pixel (0,0) that differs from the one after
\* the first frame.
C13_SecondFrameDiffers ==
    [][RendersMapper0 =>
          /\ (frame_count = 0) =>
                (frame_count' = 1 /\ SomeColour(frame_buffer'))
          /\ (frame_count = 1 /\ FrameAfterFrame) =>
                (frame_count' = 2 /\ frame_buffer'[0] # frame_buffer[0])]_vars

\* C13 (amended): with a mapper-0 ROM loaded, the first frame() gives
\* frame_count == 1 and at least one non-zero RGB byte, and every following
\* frame() raises frame_count by one; pixel (0,0) changes from one frame to
\* the next on every frame under the linear renderers, and under the palette
\* renderers exactly when the new frame_count is a multiple of 4 (so it is the
\* same after frames 1, 2 and 3 and first differs after frame 4).
C13_AnimationStep ==
    [][RendersMapper0 =>
          /\ (frame_count = 0) =>
                (frame_count' = 1 /\ SomeColour(frame_buffer'))
          /\ FrameAfterFrame =>
                /\ frame_count' = frame_count + 1
                /\ (frame_buffer'[0] # frame_buffer[0])
                      <=> (LinearRenderer \/ frame_count' % 4 = 0)]_vars

\* C13 witness: the palette renderer of fceux-zero-imports.c has drawn its
\* fourth frame of a mapper-0 ROM, and pixel (0,0) has left its frame-1 colour.
C13_Witness ==
    /\ variant = "fceux-zero-imports"
    /\ rom_loaded # 0
    /\ mapper = 0
    /\ controls = 0
    /\ last.op = "frame"
    /\ last.rendered
    /\ frame_count = 4
    /\ frame_buffer[0] # fz_pixel(0, 0, 1, 0, 0, 0, CanonicalPalette)

\* The buffer frame() of the running variant writes for counter fc and
\* controller word ctl, with the ROM metadata as they stand.
FrameOf(fc, ctl) ==
    CASE variant = "fceux-zero-imports" ->
            fz_generate_nes_frame(fc, ctl, mapper, has_chr_ram, palette)
      [] variant = "fceux-simple" ->
            fs_render(fc, ctl, mapper, has_chr_ram, chr_ram)
      [] variant = "nes-standalone" -> ns_generate_frame(fc, ctl, palette)
      [] variant = "zero-imports" -> zi_render_frame(fc, ctl)

\* C14: with a mapper-0 ROM loaded, the frame drawn after setButton(0, 1)
\* has, at every pixel, a red byte equal to (red + 64) mod 256 of the frame
\* drawn after a following reset() (both are frame 1; the second is drawn
\* with no button held).
C14_RightAddsRed ==
    [][(/\ rom_loaded # 0
        /\ mapper = 0
        /\ controls = 1
        /\ frame_count = 0
        /\ last'.op = "frame"
        /\ last'.rendered)
          => \A p \in Pixels :
                frame_buffer'[p][1] = (FrameOf(1, 0)[p][1] + 64) % 256]_vars

\* C15: reset() sets controls to 0 and frame_count to 0, sets every pixel to
\* (0, 0, 0, 255), and retains rom_loaded, rom_size, prg_banks, chr_banks,
\* mapper, has_chr_ram and the ROM staging buffer (so a reset with no ROM
\* loaded does not make rom_loaded true).
C15_ResetClearsAndRetains ==
    [][last'.op = "reset"
          => /\ controls' = 0
             /\ frame_count' = 0
             /\ \A p \in Pixels : frame_buffer'[p] = <<0, 0, 0, 255>>
             /\ UNCHANGED <<rom_loaded, rom_size, prg_banks, chr_banks, mapper,
                            has_chr_ram, rom_buffer>>]_vars

\* C15 witness: reset() has returned with a mapper-2 CHR-RAM ROM still
\* loaded and the buffer cleared.
C15_Witness ==
    /\ last.op = "reset"
    /\ rom_loaded # 0
    /\ rom_size = UNROM.size
    /\ mapper = 2
    /\ has_chr_ram # 0
    /\ controls = 0
    /\ frame_count = 0
    /\ frame_buffer = ClearedFrame

\* The buffer frame() writes in the state init() and an accepted loadRom()
\* leave behind, as a function of (frame_count, controls, mapper,
\* has_chr_ram) alone.
PureFrame(fc, ctl, map, chrram) ==
    CASE variant = "fceux-zero-imports" ->
            fz_generate_nes_frame(fc, ctl, map, chrram, CanonicalPalette)
      [] variant = "fceux-simple" -> fs_render(fc, ctl, map, chrram, PatternChr)
      [] variant = "nes-standalone" -> ns_generate_frame(fc, ctl, CanonicalPalette)
      [] variant = "zero-imports" -> zi_render_frame(fc, ctl)

\* C16: the rendered pixels are a function of (x, y, frame_count, controls,
\* mapper, has_chr_ram) only: every rendering frame() writes the buffer that
\* the frame() after an accepted loadRom() writes for the same frame_count,
\* controls, mapper and has_chr_ram.
C16_PixelsArePure ==
    [][(last'.op = "frame" /\ last'.rendered)
          => frame_buffer' = PureFrame(frame_count', controls', mapper',
                                       has_chr_ram')]_vars

\* The exported entry points as the host sees them: one call, whichever
\* variant is built.
Call_init == fz_init \/ fs_init \/ ns_init \/ zi_init

Call_loadRom(img) ==
    fz_loadRom(img) \/ fs_loadRom(img) \/ ns_loadRom(img) \/ zi_loadRom(img)

Call_frame == fz_frame \/ fs_frame \/ ns_frame \/ zi_frame

Call_reset == fz_reset \/ fs_reset \/ ns_reset \/ zi_reset

Call_setButton(button, pressed) ==
    \/ fz_setButton(button, pressed)
    \/ fs_setButton(button, pressed)
    \/ ns_setButton(button, pressed)
    \/ zi_setButton(button, pressed)

Call_setRunning(run_state) ==
    \/ fz_setRunning(run_state)
    \/ fs_setRunning(run_state)
    \/ ns_setRunning(run_state)
    \/ zi_setRunning(run_state)

\* A host that replays call sequences with a few images: a valid one of
\* each mapper, one with no PRG bank and one with a corrupted magic.
ReplayImages == {NROM, UNROM, ZeroPrg, BadMagic}

NextReplay ==
    \/ Call_init
    \/ \E img \in ReplayImages : Call_loadRom(img)
    \/ Call_frame
    \/ Call_reset
    \/ \E button \in Buttons, pressed \in PressedArg : Call_setButton(button, pressed)
    \/ \E run_state \in RunArg : Call_setRunning(run_state)

SpecReplay == Init /\ [][NextReplay]_vars

\* Values a call can leave in each static, given the state it starts from.
FlagValues == {0, 1}
RunningValues == {running, 0, 1} \cup RunArg
ControlsValues ==
    {controls, 0} \cup {OrBit(controls, b) : b \in 0..7}
                  \cup {ClearBit(controls, b) : b \in 0..7}
FrameCountValues == {frame_count, 0, frame_count + 1}
RomSizeValues == {rom_size, 0} \cup {img.size : img \in ReplayImages}
HeaderByteValues(old, i) == {old, 0} \cup {ByteAt(img, i) : img \in ReplayImages}
MapperValues ==
    {mapper, 0} \cup {MapperOf(ByteAt(img, 6), ByteAt(img, 7)) : img \in ReplayImages}
FrameBufferValues ==
    {frame_buffer, ClearedFrame, FrameOf(frame_count + 1, controls)}
PaletteValues == {palette, CanonicalPalette, SyntheticPalette}
RomBufferValues ==
    {rom_buffer, ZeroRom} \cup {CopyRom(rom_buffer, img, img.size) : img \in ReplayImages}
ChrRamValues == {chr_ram, ZeroChr, PatternChr}

\* Call A, made in the current state, has one outcome: each static and the
\* return value end with a value that no execution of A departs from.
OneOutcome(A) ==
    /\ \E v \in FlagValues : ~ENABLED (A /\ initialized' # v)
    /\ \E v \in FlagValues : ~ENABLED (A /\ rom_loaded' # v)
    /\ \E v \in RunningValues : ~ENABLED (A /\ running' # v)
    /\ \E v \in ControlsValues : ~ENABLED (A /\ controls' # v)
    /\ \E v \in FrameCountValues : ~ENABLED (A /\ frame_count' # v)
    /\ \E v \in RomSizeValues : ~ENABLED (A /\ rom_size' # v)
    /\ \E v \in HeaderByteValues(prg_banks, 4) : ~ENABLED (A /\ prg_banks' # v)
    /\ \E v \in HeaderByteValues(chr_banks, 5) : ~ENABLED (A /\ chr_banks' # v)
    /\ \E v \in MapperValues : ~ENABLED (A /\ mapper' # v)
    /\ \E v \in FlagValues : ~ENABLED (A /\ has_chr_ram' # v)
    /\ \E v \in FlagValues : ~ENABLED (A /\ has_trainer' # v)
    /\ \E v \in FlagValues : ~ENABLED (A /\ has_battery' # v)
    /\ \E v \in FrameBufferValues : ~ENABLED (A /\ frame_buffer' # v)
    /\ \E v \in PaletteValues : ~ENABLED (A /\ palette' # v)
    /\ \E v \in RomBufferValues : ~ENABLED (A /\ rom_buffer' # v)
    /\ \E v \in ChrRamValues : ~ENABLED (A /\ chr_ram' # v)
    /\ \E v \in FlagValues : ~ENABLED (A /\ last'.ret # v)

UxROM_ChrRom == INes(24592, 78, 1, 1, 32, 0, 0)
NROM_ChrRam  == INes(16400, 78, 1, 0, 0, 0, 0)

SchemePImages == {NROM, UNROM, UxROM_ChrRom, NROM_ChrRam}

PadButtons == 0..7

\* fceux-zero-imports.c driven by a host that sets the pad (any of the eight
\* buttons, pressed or released) before it starts the frame loop, and again
\* after each reset.
InitSchemeP == Init /\ variant = "fceux-zero-imports"

NextSchemeP ==
    \/ fz_init
    \/ \E img \in SchemePImages : fz_loadRom(img)
    \/ \E button \in PadButtons, pressed \in PressedArg :
          frame_count = 0 /\ fz_setButton(button, pressed)
    \/ fz_frame
    \/ fz_reset

SpecSchemeP == InitSchemeP /\ [][NextSchemeP]_vars

\* Scheme P as specified: the RGBA bytes of pixel (x, y) after the frame
\* whose post-increment counter is f.
SchemeP(x, y, f, ctl, map, chrram) ==
    LET c       == ((x \div 8) + (y \div 8) + (f \div 4)) % 64
        base    == palette_data[c + 1]
        held(b) == (ctl \div (2 ^ b)) % 2 = 1
        overlay == map = 2 /\ chrram # 0 /\ ((x + y) \div 8) % 2 # 0
        r == base[1] + (IF held(0) THEN 64 ELSE 0) - (IF held(1) THEN 32 ELSE 0)
                     + (IF overlay THEN 32 ELSE 0)
        g == base[2] + (IF held(2) THEN 64 ELSE 0) - (IF held(3) THEN 32 ELSE 0)
        b == base[3] + (IF held(6) THEN 96 ELSE 0) + (IF held(7) THEN 128 ELSE 0)
                     + (IF overlay THEN 32 ELSE 0)
    IN  <<(r + 256) % 256, (g + 256) % 256, b % 256, 255>>

\* C18: in fceux-zero-imports.c, after a rendering frame() whose
\* post-increment counter is f, every pixel holds the Scheme P colour:
\* palette entry ((x >> 3) + (y >> 3) + (f >> 2)) mod 64, then Right r += 64,
\* Left r -= 32, Down g += 64, Up g -= 32, B b += 96, A b += 128 (mod 256,
\* Select and Start without effect), then r += 32 and b += 32 exactly when
\* mapper == 2, has_chr_ram and ((x + y) & 8) != 0; alpha 255.
C18_SchemeP ==
    [][(variant = "fceux-zero-imports" /\ last'.op = "frame" /\ last'.rendered)
          => \A p \in Pixels :
                frame_buffer'[p] = SchemeP(PX(p), PY(p), frame_count', controls,
                                           mapper, has_chr_ram)]_vars

\* C18 witness: the fourth frame of a mapper-2 CHR-RAM ROM has been drawn
\* with all eight buttons held.
C18_Witness ==
    /\ variant = "fceux-zero-imports"
    /\ last.op = "frame"
    /\ last.rendered
    /\ mapper = 2
    /\ has_chr_ram # 0
    /\ controls = 255
    /\ frame_count = 4

\* Images around the size test of fceux-simple.c: a trainer image of exactly
\* the declared length and one a byte short of it, an NROM image a byte
\* short, and an image of the largest size that declares 128 PRG banks
\* (16 bytes more than 2 MiB).
Trainer      == INes(25104, 78, 1, 1, 4, 0, 0)
TrainerShort == INes(25103, 78, 1, 1, 4, 0, 0)
OneShort     == INes(24591, 78, 1, 1, 0, 0, 0)
Oversold     == INes(MAX_ROM_SIZE, 78, 128, 0, 0, 0, 0)

StrictImages ==
    {NROM, UNROM, Trainer, TrainerShort, OneShort, Oversold, Truncated, ZeroPrg,
     BadMagic, TooLarge}

\* fceux-simple.c on its own, offered the images above.
InitStrict == Init /\ variant = "fceux-simple"

NextStrict ==
    \/ fs_init
    \/ \E img \in StrictImages : fs_loadRom(img)
    \/ fs_frame
    \/ fs_reset
    \/ \E is_running \in RunArg : fs_setRunning(is_running)

SpecStrict == InitStrict /\ [][NextStrict]_vars

\* The length an image declares: header, trainer if flags6 bit 2 is set, PRG
\* banks, CHR banks.
DeclaredLength(img) ==
    16 + (IF (ByteAt(img, 6) \div 4) % 2 = 1 THEN 512 ELSE 0)
       + ByteAt(img, 4) * 16384
       + ByteAt(img, 5) * 8192

\* C19: in fceux-simple.c loadRom returns 1 only if size is at least the
\* declared length; an image with valid magic and prg_banks >= 1 that is
\* shorter returns 0 and does not set rom_loaded; and no image that declares
\* more than 2 MiB is accepted.
C19_StrictSize ==
    [][(variant = "fceux-simple" /\ last'.op = "loadRom")
          => /\ (last'.ret = 1)
                  => last'.image.size >= DeclaredLength(last'.image)
             /\ (/\ MagicOk(last'.image)
                 /\ ByteAt(last'.image, 4) >= 1
                 /\ last'.image.size < DeclaredLength(last'.image))
                  => (last'.ret = 0 /\ UNCHANGED rom_loaded)
             /\ (DeclaredLength(last'.image) > 2097152) => last'.ret = 0]_vars

\* C19 witness: after init, the trainer image one byte short of its declared
\* length has been refused with no ROM loaded.
C19_Witness ==
    /\ variant = "fceux-simple"
    /\ initialized # 0
    /\ last.op = "loadRom"
    /\ last.image = TrainerShort
    /\ last.ret = 0
    /\ rom_loaded = 0

\* Images and arguments of a host that exercises the pad: every button of
\* 0..7, released (0) or pressed (1, or any other non-zero value).
PadImages == {NROM}

PadPressed == {0, 1, 2}

\* The host sets buttons at any time; it draws a frame only as the first
\* frame and while no button is held, which keeps the set of buffers drawn
\* small.
NextPad ==
    \/ Call_init
    \/ \E img \in PadImages : Call_loadRom(img)
    \/ controls = 0 /\ frame_count = 0 /\ Call_frame
    \/ Call_reset
    \/ \E button \in PadButtons, pressed \in PadPressed :
          Call_setButton(button, pressed)
    \/ \E run_state \in RunArg : Call_setRunning(run_state)

SpecPad == Init /\ [][NextPad]_vars

\* Bit b of a controller word.
Held(ctl, b) == (ctl \div (2 ^ b)) % 2

\* C20: for b in 0..7, setButton(b, pressed) sets bit b of controls when
\* pressed is non-zero and clears it when pressed is 0, leaves the other
\* seven bits and all non-controller state unchanged, and changes nothing
\* when it repeats the call before it; controls is within 0..255 in every
\* reachable state.
C20_SetButtonSetsOneBit ==
    [][/\ controls' \in 0..255
       /\ (last'.op = "setButton" /\ last'.button \in 0..7)
            => /\ Held(controls', last'.button)
                    = (IF last'.pressed # 0 THEN 1 ELSE 0)
               /\ \A k \in (0..7) \ {last'.button} :
                     Held(controls', k) = Held(controls, k)
               /\ UNCHANGED <<initialized, rom_loaded, running, frame_count,
                              rom_size, prg_banks, chr_banks, mapper,
                              has_chr_ram, has_trainer, has_battery,
                              frame_buffer, palette, rom_buffer, chr_ram>>
               /\ (/\ last.op = "setButton"
                   /\ last.button = last'.button
                   /\ last.pressed = last'.pressed)
                    => controls' = controls]_vars

\* C20 witness: with a frame drawn and a ROM loaded, Start (bit 5) has just
\* been released while the other seven buttons stay held.
C20_Witness ==
    /\ last.op = "setButton"
    /\ last.button = 5
    /\ last.pressed = 0
    /\ controls = 223
    /\ rom_loaded # 0
    /\ frame_count > 0

\* C21: the frame buffer is modified only by the first init, by reset and by
\* a rendering frame(): setButton, setRunning, every loadRom (accepted or
\* rejected), a repeated init and a gated-off frame() leave it unchanged.
C21_FrameBufferWriters ==
    [][(\/ last'.op \in {"setButton", "setRunning", "loadRom"}
        \/ (last'.op = "init" /\ initialized # 0)
        \/ (last'.op = "frame" /\ ~last'.rendered))
          => UNCHANGED frame_buffer]_vars

\* C21 witness: a ROM has been accepted while the buffer holds the second
\* rendered frame, which is neither the zeroed nor the cleared buffer.
C21_Witness ==
    /\ last.op = "loadRom"
    /\ last.ret = 1
    /\ frame_count = 2
    /\ frame_buffer # ClearedFrame
    /\ frame_buffer # ZeroFrame

\* C22: the running flag is changed only by setRunning (and zeroed by the
\* first init): reset, loadRom, frame, setButton and a repeated init leave it
\* unchanged, so a flag set by setRunning stays set across a reset.
C22_RunningOnlyBySetRunning ==
    [][(\/ last'.op \in {"reset", "loadRom", "frame", "setButton"}
        \/ (last'.op = "init" /\ initialized # 0))
          => UNCHANGED running]_vars

\* C23: rom_loaded is monotone: a loadRom that returns 1 leaves it true, and
\* once true it stays true after every later call (repeated init, reset,
\* rejected loadRom, setButton, setRunning, frame); initialized likewise
\* never becomes false again.
C23_LoadedIsMonotone ==
    [][/\ (last'.op = "loadRom" /\ last'.ret = 1) => rom_loaded' # 0
       /\ rom_loaded # 0 => rom_loaded' # 0
       /\ initialized # 0 => initialized' # 0]_vars

\* C23 witness: init() has been called again after a ROM was loaded and two
\* frames were drawn, and the ROM is still loaded.
C23_Witness ==
    /\ last.op = "init"
    /\ initialized # 0
    /\ rom_loaded # 0
    /\ frame_count = 2

=============================================================================
